---- MODULE Spec2Model ----
(***************************************************************************)
(* The Monkey lexer of src/src/lexer.rs: a Lexer owns a peekable character *)
(* iterator over an immutable input text and Iterator::next returns one    *)
(* token per call, None once the input is exhausted.                       *)
(*                                                                         *)
(* A character is a one-character string; characters outside ASCII are     *)
(* written by their code point ("U+00A0").  A Rust String / Vec<char> is a *)
(* sequence of characters.  Option<T> is a sequence of length 0 or 1.      *)
(* A u32 is kept as two 16-bit limbs <<hi, lo>> so that the full 32-bit    *)
(* width, and the overflow at 4294967296, is the program's.                *)
(***************************************************************************)
EXTENDS Integers, Sequences, FiniteSets, TLC

VARIABLES input, chars, out, cuts, panicked, pad

vars == <<input, chars, out, cuts, panicked, pad>>

----------------------------------------------------------------------------
(* Bounds of the model.                                                    *)

\* exhaustive inputs: every string over CoreAlphabet of at most MaxLen characters
MaxLen == 4
\* inputs built from lexemes: concatenations of at most MaxPieces members of Pieces
MaxPieces == 2
\* calls of next() made after the first None
MaxNoneCalls == 1
\* the padding specification: length of the inserted whitespace run, and
\* length of the exhaustive texts it is inserted into
MaxPad == 2
MaxPadBase == 3

----------------------------------------------------------------------------
(* Characters and their classes.                                           *)

LowerCase == {"a","b","c","d","e","f","g","h","i","j","k","l","m",
              "n","o","p","q","r","s","t","u","v","w","x","y","z"}
UpperCase == {"A","B","C","D","E","F","G","H","I","J","K","L","M",
              "N","O","P","Q","R","S","T","U","V","W","X","Y","Z"}
Digits == {"0","1","2","3","4","5","6","7","8","9"}

\* char::is_whitespace: the Unicode White_Space code points
WhiteSpace == {" ", "\t", "\n", "\r", "\f", "U+000B", "U+0085", "U+00A0",
               "U+1680", "U+2028", "U+2029", "U+202F", "U+205F", "U+3000"}

DigitValue(c) ==
  CASE c = "0" -> 0 [] c = "1" -> 1 [] c = "2" -> 2 [] c = "3" -> 3
    [] c = "4" -> 4 [] c = "5" -> 5 [] c = "6" -> 6 [] c = "7" -> 7
    [] c = "8" -> 8 [] c = "9" -> 9

\* mutant of is_monkey_letter: char::is_alphabetic in place of is_ascii_alphabetic
is_monkey_letter_unicode(c) ==
  c \in LowerCase \cup UpperCase \cup {"U+00E9"} \/ c = "_"

is_monkey_letter(c) ==
  c \in LowerCase \cup UpperCase \/ c = "_"

is_monkey_digit(c) ==
  c \in Digits

\* mutant of is_monkey_whitespace: the space character only
is_monkey_whitespace_space_only(c) ==
  c = " "

is_monkey_whitespace(c) ==
  c \in WhiteSpace

\* mutant of CharTest: the letter test lets digits continue an identifier
CharTestAlnum(test, c) ==
  CASE test = "is_monkey_letter" -> is_monkey_letter(c) \/ is_monkey_digit(c)
    [] test = "is_monkey_digit" -> is_monkey_digit(c)

\* type CharTest = fn(&char) -> bool: the two function values the code passes
CharTest(test, c) ==
  CASE test = "is_monkey_letter" -> is_monkey_letter(c)
    [] test = "is_monkey_digit" -> is_monkey_digit(c)

----------------------------------------------------------------------------
(* Tokens.                                                                 *)

Tok(t) == [type |-> t, str |-> <<>>, num |-> <<0, 0>>]
Ident(s) == [type |-> "Ident", str |-> s, num |-> <<0, 0>>]
IntTok(n) == [type |-> "Int", str |-> <<>>, num |-> n]

\* Option<Token>
Some(t) == <<t>>
None == <<>>

\* the text after its first n characters
Rest(text, n) == SubSeq(text, n + 1, Len(text))

----------------------------------------------------------------------------
(* Peekable<Chars>: idx characters have been pulled from the underlying    *)
(* Chars; peeked is "Empty" (nothing buffered), "Char" (the idx-th         *)
(* character is buffered, not yet consumed) or "End" (a buffered None).    *)

NewChars == [idx |-> 0, peeked |-> "Empty"]

\* the number of characters consumed from the input
Pos(ch) == IF ch.peeked = "Char" THEN ch.idx - 1 ELSE ch.idx

PeekableNext(text, ch) ==
  CASE ch.peeked = "Char" ->
         [item |-> <<text[ch.idx]>>, chars |-> [idx |-> ch.idx, peeked |-> "Empty"]]
    [] ch.peeked = "End" ->
         [item |-> <<>>, chars |-> [idx |-> ch.idx, peeked |-> "Empty"]]
    [] OTHER ->
         IF ch.idx < Len(text)
         THEN [item |-> <<text[ch.idx + 1]>>,
               chars |-> [idx |-> ch.idx + 1, peeked |-> "Empty"]]
         ELSE [item |-> <<>>, chars |-> ch]

PeekablePeek(text, ch) ==
  CASE ch.peeked = "Char" -> [item |-> <<text[ch.idx]>>, chars |-> ch]
    [] ch.peeked = "End" -> [item |-> <<>>, chars |-> ch]
    [] OTHER ->
         IF ch.idx < Len(text)
         THEN [item |-> <<text[ch.idx + 1]>>,
               chars |-> [idx |-> ch.idx + 1, peeked |-> "Char"]]
         ELSE [item |-> <<>>, chars |-> [idx |-> ch.idx, peeked |-> "End"]]

----------------------------------------------------------------------------
(* Lexer::accumulate_while                                                 *)

\* mutant of accumulate_while: next() in place of peek(), so the character
\* that ends the run is consumed
RECURSIVE accumulate_while_eager(_, _, _, _)
accumulate_while_eager(text, ch, test, acc) ==
  LET n == PeekableNext(text, ch) IN
    IF n.item = <<>> \/ ~CharTest(test, n.item[1])
    THEN [str |-> acc, chars |-> n.chars]
    ELSE accumulate_while_eager(text, n.chars, test, Append(acc, n.item[1]))

RECURSIVE accumulate_while(_, _, _, _)
accumulate_while(text, ch, test, acc) ==
  LET p == PeekablePeek(text, ch) IN
    IF p.item = <<>> \/ ~CharTest(test, p.item[1])
    THEN [str |-> acc, chars |-> p.chars]
    ELSE accumulate_while(text, PeekableNext(text, p.chars).chars, test,
                          Append(acc, p.item[1]))

----------------------------------------------------------------------------
(* parse_keyword                                                           *)

\* mutant of parse_keyword: the "let" arm is missing
parse_keyword_no_let(s) ==
  CASE s = <<"f","n">> -> Some(Tok("Function"))
    [] s = <<"t","r","u","e">> -> Some(Tok("True"))
    [] s = <<"f","a","l","s","e">> -> Some(Tok("False"))
    [] s = <<"i","f">> -> Some(Tok("If"))
    [] s = <<"e","l","s","e">> -> Some(Tok("Else"))
    [] s = <<"r","e","t","u","r","n">> -> Some(Tok("Return"))
    [] OTHER -> None

parse_keyword(s) ==
  CASE s = <<"l","e","t">> -> Some(Tok("Let"))
    [] s = <<"f","n">> -> Some(Tok("Function"))
    [] s = <<"t","r","u","e">> -> Some(Tok("True"))
    [] s = <<"f","a","l","s","e">> -> Some(Tok("False"))
    [] s = <<"i","f">> -> Some(Tok("If"))
    [] s = <<"e","l","s","e">> -> Some(Tok("Else"))
    [] s = <<"r","e","t","u","r","n">> -> Some(Tok("Return"))
    [] OTHER -> None

----------------------------------------------------------------------------
(* str::parse::<u32>: decimal digits folded left to right with checked     *)
(* multiplication and addition; a value above u32::MAX is an Err.          *)

LimbBase == 65536

\* checked n * 10 + d on the limbs <<hi, lo>>: <<>> on overflow
CheckedMulAdd(n, d) ==
  LET lo == n[2] * 10 + d
      hi == n[1] * 10 + (lo \div LimbBase)
  IN IF hi >= LimbBase THEN <<>> ELSE << <<hi, lo % LimbBase>> >>

\* wrapping n * 10 + d (for the mutant ParseU32Wrapping)
WrappingMulAdd(n, d) ==
  LET lo == n[2] * 10 + d
      hi == n[1] * 10 + (lo \div LimbBase)
  IN << <<hi % LimbBase, lo % LimbBase>> >>

RECURSIVE ParseFrom(_, _, _)
ParseFrom(s, i, n) ==
  IF i > Len(s) THEN <<n>>
  ELSE LET r == CheckedMulAdd(n, DigitValue(s[i])) IN
         IF r = <<>> THEN <<>> ELSE ParseFrom(s, i + 1, r[1])

RECURSIVE ParseFromWrapping(_, _, _)
ParseFromWrapping(s, i, n) ==
  IF i > Len(s) THEN <<n>>
  ELSE ParseFromWrapping(s, i + 1, WrappingMulAdd(n, DigitValue(s[i]))[1])

RECURSIVE ParseFromLastDigit(_, _, _)
ParseFromLastDigit(s, i, n) ==
  IF i > Len(s) THEN <<n>>
  ELSE LET r == CheckedMulAdd(<<0, 0>>, DigitValue(s[i])) IN
         ParseFromLastDigit(s, i + 1, r[1])

\* mutant of ParseU32: wrapping arithmetic, never an Err
ParseU32Wrapping(s) == ParseFromWrapping(s, 1, <<0, 0>>)

\* mutant of ParseU32: the accumulator is not carried, only the last digit counts
ParseU32LastDigit(s) == ParseFromLastDigit(s, 1, <<0, 0>>)

\* Result<u32, ParseIntError> as an Option: <<>> is Err
ParseU32(s) == ParseFrom(s, 1, <<0, 0>>)

----------------------------------------------------------------------------
(* Iterator::next for Lexer.  A call returns [ret, chars, panic]: the      *)
(* Option<Token> returned, the iterator afterwards, and whether the call   *)
(* panicked instead of returning.                                          *)

Ret(r, ch) == [ret |-> r, chars |-> ch, panic |-> FALSE]

\* mutant of EatWhitespace: the call gives up with None at the first
\* whitespace character instead of skipping the run
EatWhitespaceGivesUp(text, ch, c) ==
  IF is_monkey_whitespace(c)
  THEN [item |-> <<>>, chars |-> ch]
  ELSE [item |-> <<c>>, chars |-> ch]

\* mutant of EatWhitespace: at the end of the input the last whitespace
\* character is dispatched on instead of returning None
RECURSIVE EatWhitespaceKeepLast(_, _, _)
EatWhitespaceKeepLast(text, ch, c) ==
  IF is_monkey_whitespace(c)
  THEN LET n == PeekableNext(text, ch) IN
         IF n.item = <<>> THEN [item |-> <<c>>, chars |-> n.chars]
         ELSE EatWhitespaceKeepLast(text, n.chars, n.item[1])
  ELSE [item |-> <<c>>, chars |-> ch]

\* the loop "while is_monkey_whitespace(&c) { c = self.chars.next()?; }":
\* item is the first character that is not whitespace, <<>> when the "?"
\* returns None from next()
RECURSIVE EatWhitespace(_, _, _)
EatWhitespace(text, ch, c) ==
  IF is_monkey_whitespace(c)
  THEN LET n == PeekableNext(text, ch) IN
         IF n.item = <<>> THEN [item |-> <<>>, chars |-> n.chars]
         ELSE EatWhitespace(text, n.chars, n.item[1])
  ELSE [item |-> <<c>>, chars |-> ch]

\* mutant of SingleChar: '<' yields GT
SingleCharLtAsGt(c) ==
  CASE c = ";" -> Some(Tok("Semicolon"))
    [] c = "(" -> Some(Tok("LParen"))
    [] c = ")" -> Some(Tok("RParen"))
    [] c = "," -> Some(Tok("Comma"))
    [] c = "+" -> Some(Tok("Plus"))
    [] c = "-" -> Some(Tok("Minus"))
    [] c = "*" -> Some(Tok("Asterisk"))
    [] c = "/" -> Some(Tok("Slash"))
    [] c = ">" -> Some(Tok("GT"))
    [] c = "<" -> Some(Tok("GT"))
    [] c = "{" -> Some(Tok("LBrace"))
    [] c = "}" -> Some(Tok("RBrace"))
    [] OTHER -> None

\* the twelve one-character arms of the match; None when c is none of them
SingleChar(c) ==
  CASE c = ";" -> Some(Tok("Semicolon"))
    [] c = "(" -> Some(Tok("LParen"))
    [] c = ")" -> Some(Tok("RParen"))
    [] c = "," -> Some(Tok("Comma"))
    [] c = "+" -> Some(Tok("Plus"))
    [] c = "-" -> Some(Tok("Minus"))
    [] c = "*" -> Some(Tok("Asterisk"))
    [] c = "/" -> Some(Tok("Slash"))
    [] c = ">" -> Some(Tok("GT"))
    [] c = "<" -> Some(Tok("LT"))
    [] c = "{" -> Some(Tok("LBrace"))
    [] c = "}" -> Some(Tok("RBrace"))
    [] OTHER -> None

\* mutant of AssignArm: the second '=' of "==" is peeked but not consumed
AssignArmNoConsume(text, ch) ==
  LET p == PeekablePeek(text, ch) IN
    IF p.item = <<"=">>
    THEN Ret(Some(Tok("Eq")), p.chars)
    ELSE Ret(Some(Tok("Assign")), p.chars)

\* the '=' arm
AssignArm(text, ch) ==
  LET p == PeekablePeek(text, ch) IN
    IF p.item = <<"=">>
    THEN Ret(Some(Tok("Eq")), PeekableNext(text, p.chars).chars)
    ELSE Ret(Some(Tok("Assign")), p.chars)

\* mutant of BangArm: next() in place of peek(), so the character after a
\* bare '!' is consumed with it
BangArmEager(text, ch) ==
  LET n == PeekableNext(text, ch) IN
    IF n.item = <<"=">>
    THEN Ret(Some(Tok("NotEq")), n.chars)
    ELSE Ret(Some(Tok("Illegal")), n.chars)

\* the '!' arm
BangArm(text, ch) ==
  LET p == PeekablePeek(text, ch) IN
    IF p.item = <<"=">>
    THEN Ret(Some(Tok("NotEq")), PeekableNext(text, p.chars).chars)
    ELSE Ret(Some(Tok("Illegal")), p.chars)

\* "parse_keyword(&ident_str).or(Some(Token::Ident(ident_str)))" for the
\* accumulated a = [str, chars]
ReadIdentifier(a) ==
  LET k == parse_keyword(a.str) IN
    Ret(IF k # None THEN k ELSE Some(Ident(a.str)), a.chars)

\* ".expect("not a number")" on the parse result num, then Token::Int
ExpectNumber(num, ch) ==
  IF num = <<>>
  THEN [ret |-> None, chars |-> ch, panic |-> TRUE]
  ELSE Ret(Some(IntTok(num[1])), ch)

ReadNumber(a) == ExpectNumber(ParseU32(a.str), a.chars)

\* the "c_ =>" arm
DefaultArm(text, ch, c) ==
  IF is_monkey_letter(c)
  THEN ReadIdentifier(accumulate_while(text, ch, "is_monkey_letter", <<c>>))
  ELSE IF is_monkey_digit(c)
  THEN ReadNumber(accumulate_while(text, ch, "is_monkey_digit", <<c>>))
  ELSE Ret(Some(Tok("Illegal")), ch)

Dispatch(text, ch, c) ==
  CASE SingleChar(c) # None -> Ret(SingleChar(c), ch)
    [] c = "=" -> AssignArm(text, ch)
    [] c = "!" -> BangArm(text, ch)
    [] OTHER -> DefaultArm(text, ch, c)

\* mutant of AfterWhitespace: an exhausted input yields Token::EOF, not None
AfterWhitespaceEOF(text, e) ==
  IF e.item = <<>> THEN Ret(Some(Tok("EOF")), e.chars)
  ELSE Dispatch(text, e.chars, e.item[1])

\* after the eat-whitespace loop: e.item is the character to dispatch on, or
\* the "?" has returned None
AfterWhitespace(text, e) ==
  IF e.item = <<>> THEN Ret(None, e.chars)
  ELSE Dispatch(text, e.chars, e.item[1])

\* after "let mut c = self.chars.next()?"
AfterFirst(text, first) ==
  IF first.item = <<>> THEN Ret(None, first.chars)
  ELSE AfterWhitespace(text, EatWhitespace(text, first.chars, first.item[1]))

\* mutant of next: the first character is peeked, not consumed
next_peek_first(text, ch) == AfterFirst(text, PeekablePeek(text, ch))

next(text, ch) == AfterFirst(text, PeekableNext(text, ch))

----------------------------------------------------------------------------
(* The input texts of the model.                                           *)

CoreAlphabet == {" ", "=", "!", ";", "a", "1", "@"}

\* every string over the alphabet S of at most n characters
StringsUpTo(S, n) == UNION {[1..k -> S] : k \in 0..n}

\* lexemes and single characters: the symbols, the keywords, identifiers,
\* digit runs on both sides of u32::MAX, whitespace, unrecognised characters
Pieces ==
  {<<";">>, <<"(">>, <<")">>, <<",">>, <<"+">>, <<"-">>, <<"*">>, <<"/">>,
   <<">">>, <<"<">>, <<"{">>, <<"}">>, <<"=">>, <<"!">>, <<"=","=">>,
   <<"!","=">>, <<"l","e","t">>, <<"f","n">>, <<"t","r","u","e">>,
   <<"f","a","l","s","e">>, <<"i","f">>, <<"e","l","s","e">>,
   <<"r","e","t","u","r","n">>, <<"l","e","t","s">>,
   <<"a","s","d","_","f">>, <<"1","2","3">>, <<"0","0","7">>,
   <<"4","2","9","4","9","6","7","2","9","5">>,
   <<"4","2","9","4","9","6","7","2","9","6">>,
   <<"0","4","2","9","4","9","6","7","2","9","6">>, <<" ">>, <<"\t">>, <<"\n">>,
   <<"U+00A0">>, <<"U+00E9">>}

\* the inputs of the tests of src/src/lexer.rs, and the examples of the
\* specification's testable properties
TestInputs ==
  {<<"{","}","+","=">>, <<"{","}","+","=","a","s","d","_","f","=">>,
   <<"{","}","+","=","a","s","d","_","f">>,
   <<" "," ","{","}"," "," "," ","+","=","a","s","d","_","f"," "," ","="," "," ">>,
   <<"\n"," "," "," "," "," "," ","l","e","t"," ","s","t","u","f","f"," ","="," ","f","n","(","x",","," ","y",")"," ","{","\n"," "," "," "," "," "," "," "," ","r","e","t","u","r","n"," ","x"," ","+"," ","y"," ","+"," ","3",";","\n"," "," "," "," "," "," ","}",";","\n"," "," "," "," ">>,
   <<"1"," ","2">>, <<"="," ","=">>, <<"x","1">>}

RECURSIVE PieceStrings(_)
PieceStrings(n) ==
  IF n = 0 THEN {<<>>}
  ELSE LET shorter == PieceStrings(n - 1) IN
         shorter \cup {s \o p : s \in shorter, p \in Pieces}

Inputs == StringsUpTo(CoreAlphabet, MaxLen) \cup PieceStrings(MaxPieces) \cup TestInputs

----------------------------------------------------------------------------
(* The state machine: a Lexer over input, called repeatedly.               *)
(*   input     the text handed to Lexer::new                               *)
(*   chars     the Lexer's only field                                      *)
(*   out       the values returned by the calls of next() so far           *)
(*   cuts      the number of characters consumed, at construction and      *)
(*             after every call                                            *)
(*   panicked  a call has panicked: the scan is aborted                    *)
(*   pad       the text the input was made from by inserting a run of      *)
(*             whitespace (the padding specification)                      *)

NoneCount == Cardinality({i \in 1..Len(out) : out[i] = None})

Init ==
  /\ input \in Inputs
  /\ chars = NewChars
  /\ out = <<>>
  /\ cuts = <<0>>
  /\ panicked = FALSE
  /\ pad = [base |-> input, at |-> 0, run |-> <<>>]

LexerNext ==
  /\ ~panicked
  /\ NoneCount <= MaxNoneCalls
  /\ \E r \in {next(input, chars)} :
       /\ chars' = r.chars
       /\ panicked' = r.panic
       /\ out' = IF r.panic THEN out ELSE Append(out, r.ret)
       /\ cuts' = Append(cuts, Pos(r.chars))
  /\ UNCHANGED <<input, pad>>

Next == LexerNext

Spec == Init /\ [][Next]_vars

----------------------------------------------------------------------------
(* The padding specification: the same Lexer, over a text made from a base *)
(* text by inserting one run of spaces, tabs and newlines after its first  *)
(* pad.at characters.                                                      *)

PadAlphabet == {" ", "=", "!", "a", "1"}

PadBases == StringsUpTo(PadAlphabet, MaxPadBase) \cup PieceStrings(1) \cup TestInputs

PadRuns == StringsUpTo({" ", "\t", "\n"}, MaxPad) \ {<<>>}

InitPad ==
  /\ \E b \in PadBases : \E a \in 0..Len(b) : \E r \in PadRuns :
       pad = [base |-> b, at |-> a, run |-> r]
  /\ input = SubSeq(pad.base, 1, pad.at) \o pad.run \o Rest(pad.base, pad.at)
  /\ chars = NewChars
  /\ out = <<>>
  /\ cuts = <<0>>
  /\ panicked = FALSE

SpecPad == InitPad /\ [][Next]_vars

----------------------------------------------------------------------------
(* A fresh scanner over a text, called n times (fewer when a call panics): *)
(* what Lexer::new(text) followed by n calls of next() returns.            *)

RECURSIVE RunFrom(_, _, _, _, _)
RECURSIVE RunStep(_, _, _, _, _)
\* r is what the call returned
RunStep(text, r, n, outs, cs) ==
  IF r.panic
  THEN [out |-> outs, cuts |-> Append(cs, Pos(r.chars)), panic |-> TRUE]
  ELSE RunFrom(text, r.chars, n - 1, Append(outs, r.ret), Append(cs, Pos(r.chars)))

RunFrom(text, ch, n, outs, cs) ==
  IF n = 0 THEN [out |-> outs, cuts |-> cs, panic |-> FALSE]
  ELSE RunStep(text, next(text, ch), n, outs, cs)

Run(text, n) == RunFrom(text, NewChars, n, <<>>, <<0>>)

----------------------------------------------------------------------------
(* The vocabulary of the properties, read off the input text alone.        *)

AsciiLetterOrUnderscore == LowerCase \cup UpperCase \cup {"_"}

\* index of the first non-whitespace character after the first n, 0 if none
RECURSIVE FirstNonWs(_, _)
FirstNonWs(text, n) ==
  IF n >= Len(text) THEN 0
  ELSE IF text[n + 1] \notin WhiteSpace THEN n + 1
  ELSE FirstNonWs(text, n + 1)

\* index of the last character of the maximal run of members of S starting at i
RECURSIVE RunEnd(_, _, _)
RunEnd(text, i, S) ==
  IF i < Len(text) /\ text[i + 1] \in S THEN RunEnd(text, i + 1, S) ELSE i

\* calls made so far, and those that have returned
Calls == 1..(Len(cuts) - 1)
Returned == 1..Len(out)

\* the index of the character the k-th call dispatches on, 0 if it finds none
DispatchIdx(k) == FirstNonWs(input, cuts[k])

\* the k-th call is not the last so far, and what follows it is what a fresh
\* scanner over the text after the first n characters returns first
NextStartsAfter(k, n) ==
  (k + 1) \in Calls =>
    LET f == Run(Rest(input, n), 1) IN
      IF f.panic THEN panicked /\ Len(out) = k
      ELSE (k + 1) \in Returned /\ out[k + 1] = f.out[1]

----------------------------------------------------------------------------
\* C1: a call that dispatches on '=' returns Eq and consumes both characters
\* when the next character is '=', and otherwise returns Assign and consumes
\* only the '='; a call that dispatches on '!' returns NotEq consuming both
\* when the next character is '=', and otherwise Illegal consuming only the
\* '!'.  In the one-character cases the peeked character is left in the input:
\* the next call starts on it.
C1_TwoCharLookahead ==
  \A k \in Returned :
    LET d == DispatchIdx(k) IN
      (d # 0 /\ input[d] \in {"=", "!"}) =>
        IF d < Len(input) /\ input[d + 1] = "="
        THEN /\ out[k] = Some(Tok(IF input[d] = "=" THEN "Eq" ELSE "NotEq"))
             /\ cuts[k + 1] = d + 1
        ELSE /\ out[k] = Some(Tok(IF input[d] = "=" THEN "Assign" ELSE "Illegal"))
             /\ cuts[k + 1] = d
             /\ NextStartsAfter(k, d)

\* "=!=" scanned to the end: Assign, then NotEq from the peeked '!'
C1_Witness ==
  /\ input = <<"=", "!", "=">>
  /\ out = <<Some(Tok("Assign")), Some(Tok("NotEq")), None>>

\* the keyword table, spelling by spelling
KeywordSpellings ==
  {<<"l","e","t">>, <<"f","n">>, <<"t","r","u","e">>, <<"f","a","l","s","e">>,
   <<"i","f">>, <<"e","l","s","e">>, <<"r","e","t","u","r","n">>}

KeywordVariant(s) ==
  CASE Len(s) = 3 -> "Let"
    [] Len(s) = 2 /\ s[1] = "f" -> "Function"
    [] Len(s) = 4 /\ s[1] = "t" -> "True"
    [] Len(s) = 5 -> "False"
    [] Len(s) = 2 /\ s[1] = "i" -> "If"
    [] Len(s) = 4 /\ s[1] = "e" -> "Else"
    [] Len(s) = 6 -> "Return"

\* C3: a call that dispatches on a letter or underscore returns the keyword
\* token when the maximal run of letters/underscores is a keyword spelling and
\* Ident carrying the run otherwise; no returned Ident carries a keyword
\* spelling.
C3_KeywordPrecedence ==
  /\ \A k \in Returned :
       LET d == DispatchIdx(k) IN
         (d # 0 /\ input[d] \in AsciiLetterOrUnderscore) =>
           LET run == SubSeq(input, d, RunEnd(input, d, AsciiLetterOrUnderscore)) IN
             IF run \in KeywordSpellings
             THEN out[k] = Some(Tok(KeywordVariant(run)))
             ELSE out[k] = Some(Ident(run))
  /\ \A k \in Returned :
       (out[k] # None /\ out[k][1].type = "Ident") => out[k][1].str \notin KeywordSpellings

\* "let" + "lets" side by side cannot be told apart from one run, so the
\* witness is the test program: Let, Ident("stuff"), ..., Return, ...
C3_Witness ==
  /\ Len(out) >= 11
  /\ out[1] = Some(Tok("Let"))
  /\ out[2] = Some(Ident(<<"s","t","u","f","f">>))
  /\ out[4] = Some(Tok("Function"))
  /\ out[11] = Some(Tok("Return"))

\* C4: a call that dispatches on a letter or underscore consumes exactly the
\* maximal run of letters/underscores and returns one token for it; the
\* character that ends the run is left in the input and the next call starts
\* on it.
C4_MaximalMunch ==
  \A k \in Returned :
    LET d == DispatchIdx(k) IN
      (d # 0 /\ input[d] \in AsciiLetterOrUnderscore) =>
        LET e == RunEnd(input, d, AsciiLetterOrUnderscore) IN
          /\ cuts[k + 1] = e
          /\ out[k] # None
          /\ out[k][1].type = "Ident" => out[k][1].str = SubSeq(input, d, e)
          /\ out[k][1].type \in {"Ident", "Let", "Function", "True", "False",
                                 "If", "Else", "Return"}
          /\ NextStartsAfter(k, e)

\* "{}+=asd_f=" scanned to the end
C4_Witness ==
  /\ input = <<"{","}","+","=","a","s","d","_","f","=">>
  /\ out = <<Some(Tok("LBrace")), Some(Tok("RBrace")), Some(Tok("Plus")),
             Some(Tok("Assign")), Some(Ident(<<"a","s","d","_","f">>)),
             Some(Tok("Assign")), None>>

\* the variant of each one-character symbol
SymbolVariant ==
  [c \in {";", "(", ")", ",", "+", "-", "*", "/", ">", "<", "{", "}"} |->
     CASE c = ";" -> "Semicolon" [] c = "(" -> "LParen" [] c = ")" -> "RParen"
       [] c = "," -> "Comma" [] c = "+" -> "Plus" [] c = "-" -> "Minus"
       [] c = "*" -> "Asterisk" [] c = "/" -> "Slash" [] c = ">" -> "GT"
       [] c = "<" -> "LT" [] c = "{" -> "LBrace" [] c = "}" -> "RBrace"]

\* C5: a call that dispatches on one of ; ( ) , + - * / > < { } returns the
\* matching variant and consumes that one character whatever follows it; an
\* input that is just that character yields the token and then None.
C5_SingleCharSymbols ==
  /\ \A k \in Returned :
       LET d == DispatchIdx(k) IN
         (d # 0 /\ input[d] \in DOMAIN SymbolVariant) =>
           /\ out[k] = Some(Tok(SymbolVariant[input[d]]))
           /\ cuts[k + 1] = d
  /\ (Len(input) = 1 /\ input[1] \in DOMAIN SymbolVariant) =>
       /\ Len(out) >= 1 => out[1] = Some(Tok(SymbolVariant[input[1]]))
       /\ \A k \in Returned : k >= 2 => out[k] = None

C5_Witness ==
  /\ input = <<"<">>
  /\ out = <<Some(Tok("LT")), None>>

----------------------------------------------------------------------------
(* Decimal numerals, for stating the value of an Int token and the u32     *)
(* range without the parser's arithmetic.                                  *)

DigitChar(d) ==
  CASE d = 0 -> "0" [] d = 1 -> "1" [] d = 2 -> "2" [] d = 3 -> "3"
    [] d = 4 -> "4" [] d = 5 -> "5" [] d = 6 -> "6" [] d = 7 -> "7"
    [] d = 8 -> "8" [] d = 9 -> "9"

\* a digit run without its leading zeros ("000" becomes "0")
RECURSIVE StripZeros(_)
StripZeros(s) ==
  IF Len(s) > 1 /\ s[1] = "0" THEN StripZeros(Tail(s)) ELSE s

\* the decimal numeral of the u32 <<hi, lo>>, by long division by ten
RECURSIVE Numeral(_)
Numeral(n) ==
  LET qhi == n[1] \div 10
      t == (n[1] % 10) * LimbBase + n[2]
      q == <<qhi, t \div 10>>
      last == <<DigitChar(t % 10)>>
  IN IF q = <<0, 0>> THEN last ELSE Numeral(q) \o last

U32MaxNumeral == <<"4","2","9","4","9","6","7","2","9","5">>

\* numerals of equal length: a is greater than b
NumeralGreater(a, b) ==
  \E i \in 1..Len(a) :
    /\ \A j \in 1..(i - 1) : a[j] = b[j]
    /\ DigitValue(a[i]) > DigitValue(b[i])

\* the digit run denotes a value above 4294967295
ExceedsU32(run) ==
  LET s == StripZeros(run) IN
    \/ Len(s) > Len(U32MaxNumeral)
    \/ Len(s) = Len(U32MaxNumeral) /\ NumeralGreater(s, U32MaxNumeral)

\* C6: a call that dispatches on a digit consumes exactly the maximal run of
\* digits and, when the run denotes at most 4294967295, returns one Int whose
\* value is the run's decimal value; "1 2" yields Int(1) then Int(2).
C6_IntegerAccumulation ==
  /\ \A k \in Calls :
       LET d == DispatchIdx(k) IN
         (d # 0 /\ input[d] \in Digits) =>
           LET e == RunEnd(input, d, Digits)
               run == SubSeq(input, d, e)
           IN /\ cuts[k + 1] = e
              /\ ~ExceedsU32(run) =>
                   /\ k \in Returned
                   /\ out[k] # None
                   /\ out[k][1].type = "Int"
                   /\ Numeral(out[k][1].num) = StripZeros(run)
  /\ input = <<"1", " ", "2">> =>
       /\ Len(out) >= 1 => out[1] = Some(IntTok(<<0, 1>>))
       /\ Len(out) >= 2 => out[2] = Some(IntTok(<<0, 2>>))
       /\ \A k \in Returned : k >= 3 => out[k] = None

\* ";4294967295": the largest u32, 65535 * 65536 + 65535, after a Semicolon
C6_Witness ==
  /\ input = <<";","4","2","9","4","9","6","7","2","9","5">>
  /\ out = <<Some(Tok("Semicolon")), Some(IntTok(<<65535, 65535>>)), None>>

\* the next call will dispatch on a digit run that denotes more than u32::MAX
OverflowAhead ==
  LET d == FirstNonWs(input, cuts[Len(cuts)]) IN
    /\ d # 0
    /\ input[d] \in Digits
    /\ ExceedsU32(SubSeq(input, d, RunEnd(input, d, Digits)))

\* C7: a call that dispatches on a digit run denoting more than 4294967295
\* panics: it returns nothing (no Int, no Illegal, no None), and no call is
\* made, and so no token produced, once a call has panicked.
C7_OverflowIsFatal ==
  [][/\ ~panicked
     /\ OverflowAhead => (panicked' /\ out' = out)]_vars

\* "fn4294967296": Function was returned, then the scan was aborted
C7_Witness ==
  /\ input = <<"f","n","4","2","9","4","9","6","7","2","9","6">>
  /\ out = <<Some(Tok("Function"))>>
  /\ panicked

\* C8: a call that finds only whitespace, or nothing, left in the input
\* returns None: an empty or all-whitespace input yields None at the first
\* call, and trailing whitespace yields None, not Illegal or EOF.
C8_ExhaustionOnWhitespace ==
  \A k \in Calls :
    (\A i \in (cuts[k] + 1)..Len(input) : input[i] \in WhiteSpace) =>
      /\ k \in Returned
      /\ out[k] = None
      /\ k = 1 => \A j \in Returned : out[j] = None

\* the whitespace test of the source scanned to the end: its last call met
\* the two trailing spaces
C8_Witness ==
  /\ input = <<" "," ","{","}"," "," "," ","+","=","a","s","d","_","f"," "," ","="," "," ">>
  /\ Len(out) = 7
  /\ out[6] = Some(Tok("Assign"))
  /\ out[7] = None
  /\ cuts[7] = 17
  /\ cuts[8] = 19

\* C9: after a call has returned Illegal for the character at index d, the
\* later calls return exactly what a fresh scanner over the text after d
\* returns, panic included.
C9_IllegalIsInBand ==
  \A k \in Returned :
    out[k] = Some(Tok("Illegal")) =>
      LET d == DispatchIdx(k)
          f == Run(Rest(input, d), Len(cuts) - 1 - k)
      IN /\ SubSeq(out, k + 1, Len(out)) = f.out
         /\ panicked = f.panic

\* "!;=": Illegal for the bare '!', then Semicolon and Assign
C9_Witness ==
  /\ input = <<"!", ";", "=">>
  /\ out = <<Some(Tok("Illegal")), Some(Tok("Semicolon")), Some(Tok("Assign")), None>>

\* the characters with a match arm of their own
RecognisedSymbols == DOMAIN SymbolVariant \cup {"=", "!"}

\* C10: a call that dispatches on a character that is no ASCII letter, no
\* underscore, no ASCII digit and no recognised symbol returns Illegal and
\* consumes that one character.
C10_UnrecognisedIsIllegal ==
  \A k \in Returned :
    LET d == DispatchIdx(k) IN
      (d # 0 /\ input[d] \notin AsciiLetterOrUnderscore \cup Digits \cup RecognisedSymbols) =>
        /\ out[k] = Some(Tok("Illegal"))
        /\ cuts[k + 1] = d

\* a non-ASCII letter twice: one Illegal for each
C10_Witness ==
  /\ input = <<"U+00E9", "U+00E9">>
  /\ out = <<Some(Tok("Illegal")), Some(Tok("Illegal")), None>>
  /\ cuts = <<0, 1, 2, 2>>

----------------------------------------------------------------------------
\* a fresh scanner over text, started from ch, returns a token (or panics on
\* a digit run) whose source run has the n-th and the (n+1)-th character of
\* the text both in it
RECURSIVE SplitsToken(_, _, _)
SplitsToken(text, ch, n) ==
  LET first == FirstNonWs(text, Pos(ch)) IN
    IF first = 0 \/ first > n THEN FALSE
    ELSE LET after == next(text, ch).chars IN
           IF n < Pos(after) THEN TRUE ELSE SplitsToken(text, after, n)

\* the insertion point is before the first token, after the last, or between
\* two tokens: it splits no token's run
PadAtBoundary == ~SplitsToken(pad.base, NewChars, pad.at)

\* the scan has ended: a call has returned None, or has panicked
ScanEnded == panicked \/ (out # <<>> /\ out[Len(out)] = None)

\* C2: with a run of spaces, tabs and newlines inserted at a token boundary,
\* the calls return, up to and including the final None (or the panic),
\* exactly what they return on the text without the run.
C2_WhitespaceTransparent ==
  (ScanEnded /\ PadAtBoundary) =>
    LET b == Run(pad.base, Len(cuts) - 1) IN
      /\ out = b.out
      /\ panicked = b.panic

\* tab and newline inserted between "a" and "=" and the text scanned to the end
C2_Witness ==
  /\ pad = [base |-> <<"a", "=">>, at |-> 1, run |-> <<"\t", "\n">>]
  /\ input = <<"a", "\t", "\n", "=">>
  /\ out = <<Some(Ident(<<"a">>)), Some(Tok("Assign")), None>>

----------------------------------------------------------------------------
\* C11: no call ever returns Token::EOF; a call returns None exactly when
\* nothing but whitespace is left in the input, so the end of the token
\* sequence is signalled by None alone and never while a character remains to
\* be tokenized.
C11_NoEofToken ==
  \A k \in Returned :
    /\ out[k] # Some(Tok("EOF"))
    /\ out[k] = None <=> DispatchIdx(k) = 0

\* the whitespace test of the source scanned to the end: six tokens, then
\* None for the trailing spaces
C11_Witness ==
  /\ input = <<" "," ","{","}"," "," "," ","+","=","a","s","d","_","f"," "," ","="," "," ">>
  /\ out = <<Some(Tok("LBrace")), Some(Tok("RBrace")), Some(Tok("Plus")),
             Some(Tok("Assign")), Some(Ident(<<"a","s","d","_","f">>)),
             Some(Tok("Assign")), None>>

----------------------------------------------------------------------------
\* C12: digits do not continue an identifier.  A call that dispatches on a
\* letter or underscore whose run is immediately followed by a digit stops
\* before the digit, and the next call reads the digit run as a separate Int
\* (or panics on it); "x1" yields Ident("x") then Int(1).  Every Ident
\* returned carries a non-empty payload of ASCII letters and underscores.
C12_DigitsEndIdentifier ==
  /\ \A k \in Returned :
       LET d == DispatchIdx(k) IN
         (d # 0 /\ input[d] \in AsciiLetterOrUnderscore) =>
           LET e == RunEnd(input, d, AsciiLetterOrUnderscore) IN
             (e < Len(input) /\ input[e + 1] \in Digits) =>
               /\ cuts[k + 1] = e
               /\ (k + 1) \in Returned =>
                    (out[k + 1] # None /\ out[k + 1][1].type = "Int")
               /\ ((k + 1) \in Calls /\ (k + 1) \notin Returned) => panicked
  /\ \A k \in Returned :
       (out[k] # None /\ out[k][1].type = "Ident") =>
         /\ out[k][1].str # <<>>
         /\ \A i \in 1..Len(out[k][1].str) :
              out[k][1].str[i] \in AsciiLetterOrUnderscore
  /\ input = <<"x", "1">> =>
       /\ Len(out) >= 1 => out[1] = Some(Ident(<<"x">>))
       /\ Len(out) >= 2 => out[2] = Some(IntTok(<<0, 1>>))
       /\ \A k \in Returned : k >= 3 => out[k] = None

\* "x1" scanned to the end
C12_Witness ==
  /\ input = <<"x", "1">>
  /\ out = <<Some(Ident(<<"x">>)), Some(IntTok(<<0, 1>>)), None>>

----------------------------------------------------------------------------
\* the number of tokens returned so far
TokenCount == Cardinality({k \in Returned : out[k] # None})

\* C13: the cursor never moves back and never passes the end of the input;
\* a call that returns a token moves it forward by at least one character;
\* so at most Len(input) tokens are returned, and any call after the first
\* Len(input) returns None.
C13_ProgressAndTermination ==
  /\ \A k \in Calls :
       /\ cuts[k] <= cuts[k + 1]
       /\ cuts[k + 1] <= Len(input)
  /\ \A k \in Returned : out[k] # None => cuts[k + 1] >= cuts[k] + 1
  /\ TokenCount <= Len(input)
  /\ \A k \in Returned : k > Len(input) => out[k] = None

\* "{}+=": as many tokens as characters, then None with the cursor at the end
C13_Witness ==
  /\ input = <<"{", "}", "+", "=">>
  /\ out = <<Some(Tok("LBrace")), Some(Tok("RBrace")), Some(Tok("Plus")),
             Some(Tok("Assign")), None>>
  /\ cuts = <<0, 1, 2, 3, 4, 4>>

----------------------------------------------------------------------------
\* src is the source run of the token t when src ends at index e of the input:
\* one character for a symbol, '=' and Illegal, two for == and !=, the
\* spelling for a keyword, the payload for an Ident, and a maximal run of
\* digits denoting the value for an Int
IsSourceOf(src, t, e) ==
  CASE t.type = "Illegal" -> Len(src) = 1
    [] t.type = "Assign" -> src = <<"=">>
    [] t.type = "Eq" -> src = <<"=", "=">>
    [] t.type = "NotEq" -> src = <<"!", "=">>
    [] t.type = "Ident" ->
         /\ src = t.str
         /\ e = Len(input) \/ input[e + 1] \notin AsciiLetterOrUnderscore
    [] t.type = "Int" ->
         /\ src # <<>>
         /\ \A i \in 1..Len(src) : src[i] \in Digits
         /\ e = Len(input) \/ input[e + 1] \notin Digits
         /\ Numeral(t.num) = StripZeros(src)
    [] t.type \in {"Let", "Function", "True", "False", "If", "Else", "Return"} ->
         /\ src \in KeywordSpellings
         /\ KeywordVariant(src) = t.type
         /\ e = Len(input) \/ input[e + 1] \notin AsciiLetterOrUnderscore
    [] OTHER ->
         /\ Len(src) = 1
         /\ src[1] \in DOMAIN SymbolVariant
         /\ SymbolVariant[src[1]] = t.type

\* C14: a call that returns a token consumes the whitespace before the token
\* and then exactly the token's source run, which starts at the first
\* non-whitespace character after the cursor; a call that returns None
\* consumes the rest of the input, all whitespace.  The consumed prefix is
\* thus the skipped whitespace runs and the tokens' source runs in order.
C14_ExactConsumption ==
  \A k \in Returned :
    LET d == DispatchIdx(k) IN
      IF out[k] = None
      THEN d = 0 /\ cuts[k + 1] = Len(input)
      ELSE /\ d # 0
           /\ cuts[k + 1] >= d
           /\ IsSourceOf(SubSeq(input, d, cuts[k + 1]), out[k][1], cuts[k + 1])

\* the whitespace test of the source scanned to the end, with the cursor
\* after each call
C14_Witness ==
  /\ input = <<" "," ","{","}"," "," "," ","+","=","a","s","d","_","f"," "," ","="," "," ">>
  /\ cuts = <<0, 3, 4, 8, 9, 14, 17, 19>>
  /\ Len(out) = 7

----------------------------------------------------------------------------
\* C15: once a call has returned None, every later call returns None, leaves
\* the cursor where it is and does not panic: no token follows the first None.
C15_ExhaustionIsSticky ==
  [][NoneCount >= 1 =>
       /\ out' = Append(out, None)
       /\ Pos(chars') = Pos(chars)
       /\ ~panicked']_vars

\* "{}+=" scanned to the end and called once more
C15_Witness ==
  /\ input = <<"{", "}", "+", "=">>
  /\ out = <<Some(Tok("LBrace")), Some(Tok("RBrace")), Some(Tok("Plus")),
             Some(Tok("Assign")), None, None>>
  /\ cuts = <<0, 1, 2, 3, 4, 4, 4>>

====
